---- MODULE Spec2Model ----
(***************************************************************************)
(* A model of lib/gpk.js: the specifier expander (expandSrc), the tag      *)
(* matcher (matchTag), the manifest locator (locatePkg) and the recursive  *)
(* installer (install).                                                    *)
(*                                                                         *)
(* Strings are sequences of atoms.  An atom is a delimiter of the          *)
(* specifier grammar (":", "#", "//", "/", "+"-prefixes, ".") or a run of  *)
(* characters holding no delimiter; version strings and tags are spelled   *)
(* character by character, so that whole-string comparison is the          *)
(* comparison JavaScript makes.  null and undefined are the two reserved   *)
(* strings Null and Undefined.  A directory is the sequence of its path    *)
(* components, << >> being the filesystem root.                            *)
(***************************************************************************)
EXTENDS Integers, Sequences, FiniteSets, TLC

VARIABLES
    ex,      \* the expandSrc call under study: arguments, result
    mt,      \* the matchTag call under study: arguments, result
    loc,     \* the locatePkg call under study: loop state
    fs,      \* the filesystem: directory -> what a read of its manifest gives
    opts,    \* the options of the top-level install call
    stack,   \* the install calls in progress, innermost first
    log,     \* the external operations performed so far, in order
    outcome, \* how the top-level install call ended
    runs     \* the top-level install calls made so far

vars == <<ex, mt, loc, fs, opts, stack, log, outcome, runs>>

----------------------------------------------------------------------------
(* Strings *)

Null == <<"<null>">>
Undefined == <<"<undefined>">>

\* JavaScript truthiness of a string-or-null value.
Truthy(s) == s # Null /\ s # Undefined /\ s # << >>

StartsWith(s, pre) ==
    Len(s) >= Len(pre) /\ SubSeq(s, 1, Len(pre)) = pre

\* String.prototype.indexOf, 1-based; 0 when `sub` does not occur.
IndexOf(s, sub) ==
    LET hits == {i \in 1..(Len(s) - Len(sub) + 1) : SubSeq(s, i, i + Len(sub) - 1) = sub}
    IN  IF hits = {} THEN 0 ELSE CHOOSE i \in hits : \A j \in hits : i <= j

\* String.prototype.replace with a string pattern: the first occurrence only.
ReplaceFirst(s, sub, rep) ==
    LET i == IndexOf(s, sub)
    IN  IF i = 0 THEN s
        ELSE SubSeq(s, 1, i - 1) \o rep \o SubSeq(s, i + Len(sub), Len(s))

\* String.prototype.split with a one-atom separator: every piece.
RECURSIVE SplitAll(_, _)
SplitAll(s, sep) ==
    LET i == IndexOf(s, <<sep>>)
    IN  IF i = 0 THEN <<s>>
        ELSE <<SubSeq(s, 1, i - 1)>> \o SplitAll(SubSeq(s, i + 1, Len(s)), sep)

\* Array destructuring: the i-th element, undefined past the end.
Nth(pieces, i) == IF i <= Len(pieces) THEN pieces[i] ELSE Undefined

\* UTF-16 code of the first character of an atom of a tag or version.
CharCode(c) ==
    CASE c = "." -> 46
      [] c = "0" -> 48 [] c = "1" -> 49 [] c = "2" -> 50 [] c = "3" -> 51
      [] c = "4" -> 52 [] c = "5" -> 53 [] c = "6" -> 54 [] c = "7" -> 55
      [] c = "8" -> 56 [] c = "9" -> 57
      [] c = "^" -> 94
      [] c = "r" -> 114
      [] c = "v" -> 118
      [] OTHER -> 120

\* a < b on strings: lexicographic by code unit, a proper prefix being smaller.
RECURSIVE StrLess(_, _)
StrLess(a, b) ==
    IF b = << >> THEN FALSE
    ELSE IF a = << >> THEN TRUE
    ELSE IF CharCode(a[1]) # CharCode(b[1]) THEN CharCode(a[1]) < CharCode(b[1])
    ELSE StrLess(Tail(a), Tail(b))

----------------------------------------------------------------------------
(* vendor/semver: satisfies(version, range), for the ranges used here *)

Digits == {"0", "1", "2", "3", "4", "5", "6", "7", "8", "9"}

IsNumeric(s) ==
    /\ Len(s) >= 1
    /\ \A i \in 1..Len(s) : s[i] \in Digits
    /\ (Len(s) > 1 => s[1] # "0")

RECURSIVE NumVal(_)
NumVal(s) ==
    IF s = << >> THEN 0
    ELSE 10 * NumVal(SubSeq(s, 1, Len(s) - 1)) + (CharCode(s[Len(s)]) - 48)

\* A version is major.minor.patch, each a number without leading zeros.
ValidVersion(s) ==
    /\ s # Null /\ s # Undefined
    /\ LET p == SplitAll(s, ".")
       IN  Len(p) = 3 /\ \A i \in 1..3 : IsNumeric(p[i])

VersionOf(s) ==
    LET p == SplitAll(s, ".") IN <<NumVal(p[1]), NumVal(p[2]), NumVal(p[3])>>

TripleLeq(a, b) ==
    \/ a[1] < b[1]
    \/ a[1] = b[1] /\ a[2] < b[2]
    \/ a[1] = b[1] /\ a[2] = b[2] /\ a[3] <= b[3]

\* The caret range ^lo: no change of the leftmost non-zero component.
CaretOk(v, lo) ==
    /\ TripleLeq(lo, v)
    /\ IF lo[1] > 0 THEN v[1] = lo[1]
       ELSE IF lo[2] > 0 THEN v[1] = 0 /\ v[2] = lo[2]
       ELSE v = lo

\* false for an invalid version and for a range that is no range (null).
Satisfies(version, range) ==
    IF ~ValidVersion(version) \/ range = Null \/ range = Undefined THEN FALSE
    ELSE IF range = << >> \/ range = <<"*">> THEN TRUE
    ELSE IF StartsWith(range, <<"^">>) /\ ValidVersion(Tail(range))
         THEN CaretOk(VersionOf(version), VersionOf(Tail(range)))
    ELSE IF ValidVersion(range) THEN VersionOf(version) = VersionOf(range)
    ELSE FALSE

----------------------------------------------------------------------------
(* Paths *)

\* path.join(dir, './node_modules/<name>')
ModulePath(dir, name) == dir \o <<"node_modules">> \o name

\* path.resolve(cwd, '../'): the root is its own parent.
Parent(dir) == IF dir = << >> THEN dir ELSE SubSeq(dir, 1, Len(dir) - 1)

\* A directory as a string.
RECURSIVE PathStr(_)
PathStr(dir) == IF dir = << >> THEN << >> ELSE <<"/", dir[1]>> \o PathStr(Tail(dir))

----------------------------------------------------------------------------
(* expandSrc *)

GitSshPrefix == <<"git+", "ssh", ":", "//">>
GitHttpsPrefix == <<"git+", "https", ":", "//">>
GitPrefix == <<"git", ":", "//">>

\* src.match(/^(git\+(ssh\:\/\/|https\:\/\/)|git\:\/\/)(.*)$/)
IsGitUrl(src) ==
    StartsWith(src, GitSshPrefix) \/ StartsWith(src, GitHttpsPrefix) \/ StartsWith(src, GitPrefix)

\* The specifier taken whole for the url, its git+ prefix included.
GitUrlWhole(src) == src

\* matched[2] + matched[3] when the transport group matched, else matched[1] + matched[3].
GitUrl(src) ==
    IF StartsWith(src, GitSshPrefix) \/ StartsWith(src, GitHttpsPrefix)
    THEN SubSeq(src, 2, Len(src))
    ELSE src

\* findVersion(branch): the fragment as a version range or as a branch.
FindVersion(branch) ==
    LET version == IF Truthy(branch) THEN ReplaceFirst(branch, <<"semver", ":">>, << >>)
                   ELSE Null
    IN  IF version # branch
        THEN [branch |-> Null, version |-> version]
        ELSE [branch |-> branch, version |-> Null]

\* src.split(/\:(.*)/, 2): the text before the first colon, and the text after it
\* (undefined when there is no colon).
SplitRemote(src) ==
    LET i == IndexOf(src, <<":">>)
    IN  IF i = 0 THEN <<src, Undefined>>
        ELSE <<SubSeq(src, 1, i - 1), SubSeq(src, i + 1, Len(src))>>

\* remotes[remote]: the entry of the alias, or none.
RemoteEntries(remotes, remote) ==
    {i \in 1..Len(remotes.table) : remotes.table[i].alias = remote}

\* One candidate of a host template.
HostCandidate(root, host, repo) ==
    IF StartsWith(host, <<"file", ":">>)
    THEN LET dir0 == ReplaceFirst(host, <<"file", ":">>, << >>)
             dir == IF StartsWith(dir0, <<"/">>) THEN dir0
                    ELSE PathStr(root) \o <<"/">> \o dir0
         IN  dir \o <<"/">> \o repo \o <<"/", ".git">>
    ELSE host \o <<"/">> \o repo \o <<".git">>

Thrown(what) == [git |-> << >>, version |-> Null, branch |-> Null, threw |-> what]

\* The part of expandSrc that resolves against the remotes table.
ExpandRemote(root, remotes, name, src) ==
    LET parts == SplitRemote(src)
        remote == parts[1]
        id == parts[2]
    IN  IF id = Undefined THEN Thrown("TypeError")
        ELSE
        LET pieces == SplitAll(id, "#")
            repo0 == Nth(pieces, 1)
            fv == FindVersion(Nth(pieces, 2))
            repo == IF Truthy(repo0) THEN repo0 ELSE name
            found == RemoteEntries(remotes, remote)
        IN  IF found = {} THEN Thrown("UnknownRemote")
            ELSE
            LET entry == remotes.table[CHOOSE i \in found : \A j \in found : j <= i]
            IN  IF ~entry.isArray THEN Thrown("RemotesNotArray")
                ELSE [git |-> [i \in 1..Len(entry.hosts) |->
                                  HostCandidate(root, entry.hosts[i], repo)],
                      version |-> fv.version, branch |-> fv.branch, threw |-> "none"]

\* expandSrc(root, remotes, name, src)
ExpandSrc(root, remotes, name, src) ==
    IF IsGitUrl(src)
    THEN LET pieces == SplitAll(GitUrl(src), "#")
             fv == FindVersion(Nth(pieces, 2))
         IN  [git |-> <<Nth(pieces, 1)>>, version |-> fv.version,
              branch |-> fv.branch, threw |-> "none"]
    ELSE IF ~remotes.present
    THEN [git |-> << >>, version |-> src, branch |-> Null, threw |-> "none"]
    ELSE ExpandRemote(root, remotes, name, src)

----------------------------------------------------------------------------
(* matchTag *)

\* The filter left out: every tag is taken for a version tag.
IsVersionTagAny(tag) == TRUE

\* tag.indexOf('v') === 0
IsVersionTag(tag) == StartsWith(tag, <<"v">>)

\* A sort with the smaller string first.
SortsAscending(a, b) == StrLess(a, b)

\* The comparator of the sort: the larger string first.
SortsBefore(a, b) == StrLess(b, a)

RECURSIVE InsertSorted(_, _)
InsertSorted(sorted, tag) ==
    IF sorted = << >> THEN <<tag>>
    ELSE IF SortsBefore(tag, sorted[1]) THEN <<tag>> \o sorted
    ELSE <<sorted[1]>> \o InsertSorted(Tail(sorted), tag)

RECURSIVE SortTags(_)
SortTags(tags) ==
    IF tags = << >> THEN << >>
    ELSE InsertSorted(SortTags(Tail(tags)), tags[1])

\* tag.replace('v', '')
StripV(tag) == ReplaceFirst(tag, <<"v">>, << >>)

\* Whether the scan stops at this tag.
TagMatches(tag, needed) == Satisfies(StripV(tag), needed)

RECURSIVE FirstMatch(_, _)
FirstMatch(sorted, needed) ==
    IF sorted = << >> THEN Null
    ELSE IF TagMatches(sorted[1], needed) THEN sorted[1]
    ELSE FirstMatch(Tail(sorted), needed)

\* matchTag(tags, needed)
MatchTag(tags, needed) ==
    FirstMatch(SortTags(SelectSeq(tags, IsVersionTag)), needed)

----------------------------------------------------------------------------
(* Manifests and the filesystem *)

\* A parsed package.json.  hasDeps, hasDev and remotes.present say whether the
\* field is there; dependencies keep their insertion order.
Manifest(name, version, hasDeps, deps, hasDev, dev, remotes) ==
    [name |-> name, version |-> version,
     hasDeps |-> hasDeps, dependencies |-> deps,
     hasDev |-> hasDev, devDependencies |-> dev,
     remotes |-> remotes]

NoRemotes == [present |-> FALSE, table |-> << >>]

\* pkg = null
NoPkg == Manifest(Null, Null, FALSE, << >>, FALSE, << >>, NoRemotes)

\* readFile(path.join(dir, './package.json')): the error code, or "ok".
ReadCode(fsys, dir) ==
    IF dir \notin DOMAIN fsys THEN "ENOENT"
    ELSE IF fsys[dir].read = "denied" THEN "EACCES"
    ELSE "ok"

----------------------------------------------------------------------------
(* locatePkg *)

\* The state of the loop before its first test.
LocateStart(dst, walk) ==
    [dst |-> dst, walk |-> walk, cwd |-> dst, hasData |-> FALSE, data |-> NoPkg,
     pc |-> "loop", visited |-> << >>, root |-> Null, found |-> FALSE, pkg |-> NoPkg]

\* while (cwd != null && data == null)
LocateLooping(st) == st.pc = "loop" /\ st.cwd # Null /\ ~st.hasData

\* The catch clause: rethrow unless the code is ENOENT.
Rethrown(code) == code # "ENOENT"

\* The walk without its test for the filesystem root.
NextCwdNoRootTest(cwd, walk) == IF ~walk THEN Null ELSE Parent(cwd)

\* Where the loop goes after an ENOENT.
NextCwd(cwd, walk) ==
    LET parent == Parent(cwd)
    IN  IF parent = cwd \/ ~walk THEN Null ELSE parent

\* One iteration of the loop.
LocateIterate(fsys, st) ==
    LET code == ReadCode(fsys, st.cwd)
        seen == [st EXCEPT !.visited = Append(@, st.cwd)]
    IN  IF code = "ok"
        THEN [seen EXCEPT !.hasData = TRUE, !.data = fsys[st.cwd].pkg]
        ELSE IF Rethrown(code) THEN [seen EXCEPT !.pc = "thrown"]
        ELSE [seen EXCEPT !.cwd = NextCwd(st.cwd, st.walk)]

\* After the loop: return {root: cwd, pkg}.
LocateFinish(st) ==
    [st EXCEPT !.pc = "done", !.root = st.cwd,
               !.found = st.hasData, !.pkg = IF st.hasData THEN st.data ELSE NoPkg]

\* locatePkg(dst, walk), run to its end.
RECURSIVE LocateRun(_, _)
LocateRun(fsys, st) ==
    IF LocateLooping(st) THEN LocateRun(fsys, LocateIterate(fsys, st))
    ELSE IF st.pc = "loop" THEN LocateFinish(st)
    ELSE st

LocatePkg(fsys, dst, walk) == LocateRun(fsys, LocateStart(dst, walk))

----------------------------------------------------------------------------
(* The remotes: what listTags reports for a url, and the tree each tag holds *)

NameA == <<"a">>
NameB == <<"b">>
NameC == <<"c">>
Host1 == <<"https", ":", "//", "h1.example">>
Host2 == <<"https", ":", "//", "h2.example">>
Origin == [present |-> TRUE,
           table |-> <<[alias |-> <<"origin">>, isArray |-> TRUE, hosts |-> <<Host1, Host2>>]>>]

Version(major) == <<major, ".", "0", ".", "0">>
Caret(major) == <<"^">> \o Version(major)
VTag(major) == <<"v">> \o Version(major)

Dep(name, src) == [name |-> name, src |-> src]
\* origin:<name>#semver:<range>
FromOrigin(name, range) == <<"origin", ":">> \o name \o <<"#", "semver", ":">> \o range
\* git+https://h2.example/<name>.git#semver:<range>
FromUrl(name, range) ==
    <<"git+">> \o Host2 \o <<"/">> \o name \o <<".git", "#", "semver", ":">> \o range

RepoUrl(host, name) == host \o <<"/">> \o name \o <<".git">>

\* The tree of a package at a version: its manifest, and whether it has a binding.gyp.
TreeOf(name, major) ==
    CASE name = NameA /\ major = "1" ->
           [pkg |-> Manifest(NameA, Version("1"), TRUE,
                             <<Dep(NameB, FromOrigin(NameB, Caret("1")))>>,
                             FALSE, << >>, Origin),
            gyp |-> "present"]
      [] name = NameA /\ major = "2" ->
           [pkg |-> Manifest(NameA, Version("2"), TRUE,
                             <<Dep(NameB, FromOrigin(NameB, Caret("2")))>>,
                             FALSE, << >>, Origin),
            gyp |-> "absent"]
      [] name = NameB /\ major = "1" ->
           [pkg |-> Manifest(NameB, Version("1"), FALSE, << >>, FALSE, << >>, NoRemotes),
            gyp |-> "present"]
      [] name = NameB /\ major = "2" ->
           [pkg |-> Manifest(NameB, Version("2"), TRUE,
                             <<Dep(NameA, FromOrigin(NameA, Caret("2")))>>,
                             TRUE, <<Dep(NameC, FromOrigin(NameC, Caret("1")))>>, Origin),
            gyp |-> "absent"]
      [] OTHER ->
           [pkg |-> Manifest(name, Version(major), TRUE, << >>, FALSE, << >>, NoRemotes),
            gyp |-> "present"]

TagRecord(name, major, annotated) ==
    [tag |-> VTag(major), annotated |-> annotated,
     commit |-> name \o <<"@">> \o Version(major), tree |-> TreeOf(name, major)]

\* A tag that is no version tag.
OtherTag(name) ==
    [tag |-> <<"release">>, annotated |-> FALSE, commit |-> name \o <<"@", "release">>,
     tree |-> TreeOf(name, "0")]

\* listTags(url): the tags of the repository, an empty table for an empty one.
TagsAt(url) ==
    CASE url = RepoUrl(Host1, NameA) -> <<TagRecord(NameA, "1", TRUE)>>
      [] url = RepoUrl(Host2, NameA) -> <<TagRecord(NameA, "1", TRUE), TagRecord(NameA, "2", FALSE)>>
      [] url = RepoUrl(Host1, NameB) -> <<TagRecord(NameB, "1", FALSE), OtherTag(NameB)>>
      [] url = RepoUrl(Host2, NameB) -> <<TagRecord(NameB, "2", TRUE), TagRecord(NameB, "1", TRUE)>>
      [] url = RepoUrl(Host1, NameC) -> <<OtherTag(NameC)>>
      [] url = RepoUrl(Host2, NameC) -> <<TagRecord(NameC, "1", TRUE)>>
      [] OTHER -> << >>

\* Object.keys(tags)
TagNames(table) == [i \in 1..Len(table) |-> table[i].tag]

\* tags[tag]
TagEntry(table, tag) == table[CHOOSE i \in 1..Len(table) : table[i].tag = tag]

----------------------------------------------------------------------------
(* The calls under study, at rest *)

IdleEx == [root |-> << >>, remotes |-> NoRemotes, name |-> << >>, src |-> << >>,
           called |-> FALSE, ret |-> Thrown("pending")]
IdleMt == [tags |-> << >>, needed |-> Null, called |-> FALSE, ret |-> Null]
IdleLoc == [LocateStart(<< >>, FALSE) EXCEPT !.pc = "idle"]
IdleOpts == [production |-> FALSE, dst |-> << >>, prefix |-> Null]

InstallIdle ==
    /\ fs = << >> /\ opts = IdleOpts /\ stack = << >> /\ log = << >>
    /\ outcome = << >> /\ runs = 0

----------------------------------------------------------------------------
(* expandSrc, applied to the specifier forms *)

ExRoot == <<"proj">>
ExNames == {<<"foo">>}
HostUrl == <<"https", ":", "//", "h.example", "/", "org">>
HostFileRel == <<"file", ":", "store">>
HostFileAbs == <<"file", ":", "/", "repo", "/", "store">>

RemotesOf(hosts) ==
    [present |-> TRUE,
     table |-> <<[alias |-> <<"origin">>, isArray |-> TRUE, hosts |-> hosts]>>]

ExRemotes ==
    { NoRemotes,
      RemotesOf(<<HostUrl>>),
      RemotesOf(<<HostUrl, HostFileRel, HostFileAbs>>),
      [present |-> TRUE,
       table |-> <<[alias |-> <<"origin">>, isArray |-> FALSE, hosts |-> << >>]>>] }

ExamplePkg == <<"example.com", "/", "pkg", ".git">>

ExHeads ==
    { GitHttpsPrefix \o ExamplePkg, GitSshPrefix \o ExamplePkg, GitPrefix \o ExamplePkg,
      <<"origin">>, <<"origin", ":">>, <<"origin", ":", "bar">>, <<"nope", ":", "bar">>,
      <<"1", ".", "0", ".", "0">>, << >> }

ExFragments ==
    { << >>, <<"#">>, <<"#", "develop">>,
      <<"#", "semver", ":", "^", "1", ".", "2", ".", "0">>,
      <<"#", "develop", "#", "x">>,
      <<"#", "fix-", "semver", ":", "x">> }

ExSrcs == {h \o f : h \in ExHeads, f \in ExFragments}

InitExpand ==
    /\ ex \in [root : {ExRoot}, remotes : ExRemotes, name : ExNames, src : ExSrcs,
               called : {FALSE}, ret : {Thrown("pending")}]
    /\ mt = IdleMt /\ loc = IdleLoc /\ InstallIdle

ExpandCall ==
    /\ ~ex.called
    /\ ex' = [ex EXCEPT !.called = TRUE,
                        !.ret = ExpandSrc(ex.root, ex.remotes, ex.name, ex.src)]
    /\ UNCHANGED <<mt, loc, fs, opts, stack, log, outcome, runs>>

NextExpand == ExpandCall

SpecExpand == InitExpand /\ [][NextExpand]_vars

----------------------------------------------------------------------------
(* matchTag, applied to tag lists *)

MaxTags == 3

Tag(major, minor) == <<"v">> \o major \o <<".">> \o minor \o <<".", "0">>

TagPool ==
    { Tag(<<"1">>, <<"0">>), Tag(<<"1">>, <<"5">>), Tag(<<"2">>, <<"0">>),
      Tag(<<"1", "0">>, <<"0">>),
      <<"1", ".", "0", ".", "0">>,
      <<"r", "v", "1", ".", "0", ".", "0">> }

Ranges ==
    { <<"^", "1", ".", "0", ".", "0">>, <<"2", ".", "0", ".", "0">>, <<"*">>,
      <<"^", "3", ".", "0", ".", "0">>, Null }

TagLists == UNION {[1..n -> TagPool] : n \in 0..MaxTags}

InitMatch ==
    /\ mt \in [tags : TagLists, needed : Ranges, called : {FALSE}, ret : {Null}]
    /\ ex = IdleEx /\ loc = IdleLoc /\ InstallIdle

MatchCall ==
    /\ ~mt.called
    /\ mt' = [mt EXCEPT !.called = TRUE, !.ret = MatchTag(mt.tags, mt.needed)]
    /\ UNCHANGED <<ex, loc, fs, opts, stack, log, outcome, runs>>

NextMatch == MatchCall

SpecMatch == InitMatch /\ [][NextMatch]_vars

----------------------------------------------------------------------------
(* locatePkg, applied to a chain of directories *)

MaxLocDepth == 3

\* The directory n levels below the filesystem root.
LocDir(n) == [i \in 1..n |-> "d"]

LocDirs == {LocDir(n) : n \in 0..MaxLocDepth}

\* The manifest a directory of the chain holds, when it holds one.
LocManifest(dir) ==
    Manifest(<<"pkg">> \o dir, <<"1", ".", "0", ".", "0">>, FALSE, << >>, FALSE, << >>,
             NoRemotes)

LocEntry(dir, read) == [read |-> read, pkg |-> LocManifest(dir), gyp |-> "absent"]

\* Every layout: each directory has no manifest, a readable one or an unreadable one.
LocLayouts ==
    { [d \in {x \in LocDirs : kind[x] # "absent"} |-> LocEntry(d, kind[d])] :
        kind \in [LocDirs -> {"absent", "ok", "denied"}] }

InitLocate ==
    /\ fs \in LocLayouts
    /\ \E dst \in LocDirs, walk \in BOOLEAN : loc = LocateStart(dst, walk)
    /\ ex = IdleEx /\ mt = IdleMt
    /\ opts = IdleOpts /\ stack = << >> /\ log = << >> /\ outcome = << >> /\ runs = 0

LocateRead ==
    /\ LocateLooping(loc)
    /\ loc' = LocateIterate(fs, loc)
    /\ UNCHANGED <<ex, mt, fs, opts, stack, log, outcome, runs>>

LocateReturn ==
    /\ loc.pc = "loop" /\ ~LocateLooping(loc)
    /\ loc' = LocateFinish(loc)
    /\ UNCHANGED <<ex, mt, fs, opts, stack, log, outcome, runs>>

NextLocate == LocateRead \/ LocateReturn

SpecLocate == InitLocate /\ [][NextLocate]_vars

----------------------------------------------------------------------------
(* install *)

MaxRuns == 2
MaxDepth == 4
MaxFaults == 1

\* The directory install is called on at the top level, and a package directory
\* below it, for the calls that name their prefix.
Target == <<"proj">>
SubTarget == <<"proj", "sub">>

\* dependencies[name], undefined when the name is no key.
Lookup(deps, name) ==
    LET at == {i \in 1..Len(deps) : deps[i].name = name}
    IN  IF at = {} THEN Undefined ELSE deps[CHOOSE i \in at : TRUE].src

\* dependencies[name] = src: a new key goes last, an old one keeps its place.
SetDep(deps, name, src) ==
    IF \E i \in 1..Len(deps) : deps[i].name = name
    THEN [i \in 1..Len(deps) |-> IF deps[i].name = name THEN Dep(name, src) ELSE deps[i]]
    ELSE Append(deps, Dep(name, src))

\* if (!dependencies[name])
DevEntryTaken(deps, name) == ~Truthy(Lookup(deps, name))

\* A merge that puts the devDependencies taken before the direct dependencies.
MergeDevFirst(deps, dev) ==
    LET IsNew(d) == \A i \in 1..Len(deps) : deps[i].name # d.name
    IN  SelectSeq(dev, IsNew) \o deps

RECURSIVE MergeInto(_, _)
MergeInto(deps, dev) ==
    IF dev = << >> THEN deps
    ELSE MergeInto(IF DevEntryTaken(deps, dev[1].name)
                   THEN SetDep(deps, dev[1].name, dev[1].src) ELSE deps,
                   Tail(dev))

\* The dependencies the loop goes through.
MergedDeps(pkg, production) ==
    IF ~production /\ pkg.hasDev THEN MergeInto(pkg.dependencies, pkg.devDependencies)
    ELSE pkg.dependencies

\* path.join(prefix, `./node_modules/${name}`)
FlatPath(prefix, name) == ModulePath(prefix, name)

\* path.join(root, `./node_modules/${name}`)
NestedPath(root, name) == ModulePath(root, name)

\* semver.satisfies(existingPkg.version, version)
AlreadySatisfied(existing, version) == Satisfies(existing.version, version)

\* The options a recursive call runs with: install(nextDst, prefix) passes none.
ChildProduction(production) == FALSE

\* An entry of the log: the operation, the install call it belongs to (the run,
\* the depth of the call, the directory the call was made on) and its arguments.
Event(op, path, flat, url, tag, note) ==
    [run |-> runs, depth |-> Len(stack),
     call |-> IF stack = << >> THEN Null ELSE Head(stack).dst,
     op |-> op, path |-> path, flat |-> flat, url |-> url, tag |-> tag, note |-> note]

NoFrame ==
    [dst |-> Null, root |-> Null, prefix |-> Null, production |-> FALSE, pc |-> "none",
     pkg |-> NoPkg, deps |-> << >>, i |-> 1, name |-> Null, git |-> << >>,
     version |-> Null, flat |-> Null, target |-> Null, conflict |-> FALSE, h |-> 1,
     matched |-> FALSE, tag |-> Null, annotated |-> FALSE, commit |-> Null,
     installed |-> << >>, k |-> 1]

\* A call that goes from its dependency loop to binding.gyp without recursing.
AfterLoopNoRecursion(f) == [f EXCEPT !.pc = "gyp"]

\* Past the dependency loop: the recursion if anything was installed, else the
\* probe for binding.gyp.
AfterLoop(f) ==
    [f EXCEPT !.pc = IF f.k > Len(f.installed) THEN "gyp" ELSE "recurse"]

\* The next iteration of the dependency loop.
NextDep(f) ==
    LET g == [f EXCEPT !.i = f.i + 1, !.h = 1, !.matched = FALSE, !.conflict = FALSE]
    IN  IF g.i > Len(g.deps) THEN AfterLoop(g) ELSE [g EXCEPT !.pc = "dep"]

\* The start of install up to its dependency loop: locatePkg(dst, false), the
\* default of prefix, the two early exits and the merge of the devDependencies.
Enter(dst, prefix, production) ==
    LET found == LocatePkg(fs, dst, FALSE)
        pfx == IF prefix = Null THEN found.root ELSE prefix
    IN  IF found.pc = "thrown" THEN [kind |-> "fail", code |-> "IOError", frame |-> NoFrame]
        ELSE IF ~found.found
             THEN [kind |-> "fail", code |-> "UnknownPackage", frame |-> NoFrame]
        ELSE IF ~found.pkg.hasDeps
             THEN [kind |-> "leaf", code |-> "ok", frame |-> NoFrame]
        ELSE LET f == [NoFrame EXCEPT !.dst = dst, !.root = found.root, !.prefix = pfx,
                                      !.production = production, !.pkg = found.pkg,
                                      !.deps = MergedDeps(found.pkg, production)]
             IN  [kind |-> "frame", code |-> "ok",
                  frame |-> IF f.deps = << >> THEN AfterLoop(f) ELSE [f EXCEPT !.pc = "dep"]]

\* The external operations that failed so far: a throw of listTags, cloneRepo,
\* verifyRepo or rebuild, or a verification that reported false.
Faults == Cardinality({i \in 1..Len(log) : log[i].op \in {"listTags", "clone", "verify", "rebuild"}
                                            /\ log[i].note \in {"threw", "false"}})

\* The results an external operation may have: its failures while the
\* environment has failures left to inject.
Results(all) == IF Faults < MaxFaults THEN all ELSE {"ok"}

\* An error that ends the innermost call only, the enclosing call going on.
FailInnermost(code, events) ==
    /\ stack' = Tail(stack)
    /\ outcome' = IF Len(stack) = 1 THEN Append(outcome, code) ELSE outcome
    /\ log' = log \o events \o <<Event("throw", Null, Null, Null, Null, code)>>

\* An error leaves every install call in progress.
Fail(code, events) ==
    /\ stack' = << >>
    /\ outcome' = Append(outcome, code)
    /\ log' = log \o events \o <<Event("throw", Null, Null, Null, Null, code)>>

\* The innermost call returns; the outermost one ends the run.
Return(events) ==
    /\ stack' = Tail(stack)
    /\ outcome' = IF Len(stack) = 1 THEN Append(outcome, "ok") ELSE outcome
    /\ log' = log \o events

\* Whether the directory holds a binding.gyp, as the returning call leaves it.
GypNote(dir) == IF dir \in DOMAIN fs THEN fs[dir].gyp ELSE "absent"

\* The top-level call: install(dst, prefix, options).
Begin ==
    /\ stack = << >> /\ runs < MaxRuns /\ Len(outcome) = runs
    /\ runs' = runs + 1
    /\ LET r == Enter(opts.dst, opts.prefix, opts.production)
           called == [Event("install", opts.dst, Null, Null, Null, "top") EXCEPT
                          !.run = runs + 1, !.depth = 1, !.call = opts.dst]
       IN  CASE r.kind = "fail" ->
                  /\ stack' = << >> /\ outcome' = Append(outcome, r.code)
                  /\ log' = log \o <<called, [called EXCEPT !.op = "throw", !.note = r.code]>>
             [] r.kind = "leaf" ->
                  /\ stack' = << >> /\ outcome' = Append(outcome, "ok")
                  /\ log' = log \o <<called, [called EXCEPT !.op = "return",
                                                           !.note = GypNote(opts.dst)]>>
             [] OTHER ->
                  /\ stack' = <<r.frame>> /\ outcome' = outcome
                  /\ log' = Append(log, called)
    /\ UNCHANGED <<ex, mt, loc, fs, opts>>

\* One iteration of the dependency loop up to its first listTags: expandSrc, the
\* probe of the flat path, the already-satisfied test, the choice of the target.
ProbeDep ==
    /\ stack # << >> /\ Head(stack).pc = "dep"
    /\ LET f == Head(stack)
           d == f.deps[f.i]
           e == ExpandSrc(f.prefix, f.pkg.remotes, d.name, d.src)
           flat == FlatPath(f.prefix, d.name)
           code == ReadCode(fs, flat)
           probe == Event("probe", flat, flat, Null, Null, d.name[1])
       IN  IF e.threw # "none" THEN Fail(e.threw, << >>)
           ELSE IF code # "ok" /\ Rethrown(code) THEN Fail("IOError", <<probe>>)
           ELSE IF code = "ok" /\ AlreadySatisfied(fs[flat].pkg, e.version)
                THEN /\ stack' = <<NextDep(f)>> \o Tail(stack)
                     /\ log' = log \o <<probe, [probe EXCEPT !.op = "satisfied"]>>
                     /\ outcome' = outcome
           ELSE IF e.git = << >> THEN Fail("UnknownRemotes", <<probe>>)
           ELSE /\ stack' = <<[f EXCEPT !.pc = "list", !.name = d.name, !.git = e.git,
                                        !.version = e.version, !.flat = flat,
                                        !.conflict = (code = "ok"),
                                        !.target = IF code = "ok"
                                                   THEN NestedPath(f.root, d.name)
                                                   ELSE flat,
                                        !.h = 1, !.matched = FALSE]>> \o Tail(stack)
                /\ log' = Append(log, probe)
                /\ outcome' = outcome
    /\ UNCHANGED <<ex, mt, loc, fs, opts, runs>>

\* A host loop that stops at the first host, whatever it offers.
NextHostGivesUp(f) == NextDep(f)

\* The next candidate host, or the end of the host loop: the loop ends without an
\* error, and the dependency loop goes on.
NextHost(f) ==
    IF f.h + 1 > Len(f.git) THEN NextDep(f)
    ELSE [f EXCEPT !.h = f.h + 1, !.pc = "list"]

\* What the end of the host loop leaves in the log.
Exhausted(f) ==
    IF f.h + 1 > Len(f.git)
    THEN <<Event("exhausted", f.target, f.flat, Null, Null,
                 IF f.matched THEN "unverified" ELSE "nomatch")>>
    ELSE << >>

\* listTags(url) and matchTag on its keys.
ListTags ==
    /\ stack # << >> /\ Head(stack).pc = "list"
    /\ LET f == Head(stack)
           url == f.git[f.h]
           table == TagsAt(url)
           tag == MatchTag(TagNames(table), f.version)
       IN  \E result \in Results({"ok", "threw"}) :
             IF result = "threw"
             THEN Fail("ListTagsError", <<Event("listTags", f.target, f.flat, url, Null, "threw")>>)
             ELSE IF tag = Null
             THEN /\ stack' = <<NextHost(f)>> \o Tail(stack)
                  /\ log' = log \o <<Event("listTags", f.target, f.flat, url, Null, "nomatch")>>
                                \o Exhausted(f)
                  /\ outcome' = outcome
             ELSE /\ stack' = <<[f EXCEPT !.pc = "clone", !.tag = tag, !.matched = TRUE,
                                          !.annotated = TagEntry(table, tag).annotated,
                                          !.commit = TagEntry(table, tag).commit]>>
                                \o Tail(stack)
                  /\ log' = Append(log, Event("listTags", f.target, f.flat, url, tag, "match"))
                  /\ outcome' = outcome
    /\ UNCHANGED <<ex, mt, loc, fs, opts, runs>>

\* cloneRepo(tag, url, dst): the tree of the tag is written at the target.
CloneRepo ==
    /\ stack # << >> /\ Head(stack).pc = "clone"
    /\ LET f == Head(stack)
           url == f.git[f.h]
           tree == TagEntry(TagsAt(url), f.tag).tree
           ev == Event("clone", f.target, f.flat, url, f.tag,
                       IF f.conflict THEN "conflict" ELSE "fresh")
       IN  \E result \in Results({"ok", "threw"}) :
             IF result = "threw"
             THEN Fail("CloneError", <<[ev EXCEPT !.note = "threw"]>>) /\ fs' = fs
             ELSE /\ fs' = (f.target :> [read |-> "ok", pkg |-> tree.pkg, gyp |-> tree.gyp]) @@ fs
                  /\ stack' = <<[f EXCEPT !.pc = "verify"]>> \o Tail(stack)
                  /\ log' = Append(log, ev)
                  /\ outcome' = outcome
    /\ UNCHANGED <<ex, mt, loc, opts, runs>>

\* verifyRepo(tag, null, dst) for an annotated tag, verifyRepo(null, commit, dst)
\* otherwise; a throw is wrapped, a success ends the host loop.
VerifyRepo ==
    /\ stack # << >> /\ Head(stack).pc = "verify"
    /\ LET f == Head(stack)
           url == f.git[f.h]
           ev == Event("verify", f.target, f.flat, url,
                       IF f.annotated THEN f.tag ELSE f.commit, "ok")
       IN  \E result \in Results({"ok", "false", "threw"}) :
             CASE result = "threw" ->
                    Fail("VerificationError", <<[ev EXCEPT !.note = "threw"]>>)
               [] result = "ok" ->
                    /\ stack' = <<NextDep([f EXCEPT !.installed = Append(@, f.target)])>>
                                  \o Tail(stack)
                    /\ log' = Append(log, ev)
                    /\ outcome' = outcome
               [] OTHER ->
                    /\ stack' = <<NextHost(f)>> \o Tail(stack)
                    /\ log' = log \o <<[ev EXCEPT !.note = "false"]>> \o Exhausted(f)
                    /\ outcome' = outcome
    /\ UNCHANGED <<ex, mt, loc, fs, opts, runs>>

\* await install(nextDst, prefix) for the next newly installed path.
Recurse ==
    /\ stack # << >> /\ Head(stack).pc = "recurse"
    /\ Len(stack) < MaxDepth
    /\ LET f == Head(stack)
           next == f.installed[f.k]
           r == Enter(next, f.prefix, ChildProduction(f.production))
           parent == AfterLoop([f EXCEPT !.k = f.k + 1])
           called == [Event("install", next, Null, Null, Null, "nested") EXCEPT
                          !.depth = Len(stack) + 1, !.call = next]
       IN  CASE r.kind = "fail" ->
                  /\ stack' = << >> /\ outcome' = Append(outcome, r.code)
                  /\ log' = log \o <<called, [called EXCEPT !.op = "throw", !.note = r.code]>>
             [] r.kind = "leaf" ->
                  /\ stack' = <<parent>> \o Tail(stack)
                  /\ log' = log \o <<called, [called EXCEPT !.op = "return",
                                                           !.note = GypNote(next)]>>
                  /\ outcome' = outcome
             [] OTHER ->
                  /\ stack' = <<r.frame, parent>> \o Tail(stack)
                  /\ log' = Append(log, called)
                  /\ outcome' = outcome
    /\ UNCHANGED <<ex, mt, loc, fs, opts, runs>>

\* access(binding.gyp): a missing file ends the call, any other failure is thrown.
ProbeGyp ==
    /\ stack # << >> /\ Head(stack).pc = "gyp"
    /\ LET f == Head(stack)
           gyp == GypNote(f.root)
       IN  CASE gyp = "denied" -> Fail("IOError", <<Event("access", f.root, Null, Null, Null, gyp)>>)
             [] gyp = "present" ->
                  /\ stack' = <<[f EXCEPT !.pc = "rebuild"]>> \o Tail(stack)
                  /\ log' = Append(log, Event("access", f.root, Null, Null, Null, gyp))
                  /\ outcome' = outcome
             [] OTHER ->
                  Return(<<Event("access", f.root, Null, Null, Null, gyp),
                           Event("return", f.root, Null, Null, Null, gyp)>>)
    /\ UNCHANGED <<ex, mt, loc, fs, opts, runs>>

\* rebuild(root): node-gyp rebuild in the package's directory.
Rebuild ==
    /\ stack # << >> /\ Head(stack).pc = "rebuild"
    /\ LET f == Head(stack)
       IN  \E result \in Results({"ok", "threw"}) :
             IF result = "threw"
             THEN Fail("RebuildError", <<Event("rebuild", f.root, Null, Null, Null, "threw")>>)
             ELSE Return(<<Event("rebuild", f.root, Null, Null, Null, "ok"),
                           Event("return", f.root, Null, Null, Null, GypNote(f.root))>>)
    /\ UNCHANGED <<ex, mt, loc, fs, opts, runs>>

----------------------------------------------------------------------------
(* The installs explored *)

\* The manifests of the target.
RootManifests ==
    { Manifest(<<"proj">>, Version("1"), TRUE,
               <<Dep(NameA, FromOrigin(NameA, Caret("1"))),
                 Dep(NameB, FromOrigin(NameB, Caret("2")))>>,
               FALSE, << >>, Origin),
      Manifest(<<"proj">>, Version("1"), TRUE,
               <<Dep(NameB, FromOrigin(NameB, Caret("1")))>>,
               TRUE, <<Dep(NameB, FromOrigin(NameB, Caret("2"))),
                       Dep(NameC, FromOrigin(NameC, Caret("1")))>>, Origin),
      Manifest(<<"proj">>, Version("1"), TRUE,
               <<Dep(NameB, FromOrigin(NameB, Caret("1"))),
                 Dep(<<"x">>, <<"nope", ":", "x", "#", "semver", ":">> \o Caret("1"))>>,
               FALSE, << >>, Origin),
      Manifest(<<"proj">>, Version("1"), TRUE,
               <<Dep(NameC, FromOrigin(NameC, Caret("3"))),
                 Dep(NameB, FromOrigin(NameB, Caret("1")))>>,
               FALSE, << >>, Origin),
      Manifest(<<"proj">>, Version("1"), TRUE,
               <<Dep(NameB, << >>)>>,
               TRUE, <<Dep(NameB, Version("2"))>>, NoRemotes),
      Manifest(<<"proj">>, Version("1"), TRUE,
               <<Dep(NameC, FromUrl(NameC, Caret("1")))>>,
               FALSE, << >>, NoRemotes),
      Manifest(<<"proj">>, Version("1"), TRUE,
               <<Dep(NameB, FromOrigin(NameB, Caret("2")))>>,
               FALSE, << >>, Origin),
      Manifest(<<"proj">>, Version("1"), FALSE, << >>, FALSE, << >>, NoRemotes) }

Installed(name, major, read) ==
    [read |-> read, pkg |-> TreeOf(name, major).pkg, gyp |-> TreeOf(name, major).gyp]

\* What the installation tree holds before the first call.
Preinstalled ==
    { << >>,
      FlatPath(Target, NameB) :> Installed(NameB, "1", "ok"),
      FlatPath(Target, NameB) :> Installed(NameB, "1", "denied") }

\* The calls made at the top level: install(dst) and install(dst, prefix).
TopCalls == { [dst |-> Target, prefix |-> Null], [dst |-> SubTarget, prefix |-> Target] }

Init ==
    /\ \E call \in TopCalls, production \in BOOLEAN :
          opts = [production |-> production, dst |-> call.dst, prefix |-> call.prefix]
    /\ \E m \in RootManifests, pre \in Preinstalled, gyp \in {"absent", "present"} :
          fs = (opts.dst :> [read |-> "ok", pkg |-> m, gyp |-> gyp]) @@ pre
    /\ stack = << >> /\ log = << >> /\ outcome = << >> /\ runs = 0
    /\ ex = IdleEx /\ mt = IdleMt /\ loc = IdleLoc

Next ==
    \/ Begin
    \/ ProbeDep
    \/ ListTags
    \/ CloneRepo
    \/ VerifyRepo
    \/ Recurse
    \/ ProbeGyp
    \/ Rebuild

Spec == Init /\ [][Next]_vars

----------------------------------------------------------------------------
(* Claims about expandSrc *)

\* The specifier is <alias>#<fragment>: no colon before the first "#", one "#".
IsAliasFragment(src) ==
    LET i == IndexOf(src, <<"#">>)
    IN  /\ i > 1
        /\ IndexOf(SubSeq(src, 1, i - 1), <<":">>) = 0
        /\ IndexOf(SubSeq(src, i + 1, Len(src)), <<"#">>) = 0
        /\ Len(src) > i

AliasOf(src) == SubSeq(src, 1, IndexOf(src, <<"#">>) - 1)
FragmentOf(src) == SubSeq(src, IndexOf(src, <<"#">>) + 1, Len(src))

\* C4: for src = <alias>#<fragment> with the alias in the remotes table, expandSrc
\* does not raise and yields one candidate per host, in host order, built with the
\* dependency name as repo; a fragment without the semver prefix is the branch, and
\* the version range is null.
C4_AliasFragmentDefaultsRepo ==
    (/\ ex.called
     /\ IsAliasFragment(ex.src)
     /\ ex.remotes.present
     /\ \E i \in 1..Len(ex.remotes.table) :
            ex.remotes.table[i].alias = AliasOf(ex.src) /\ ex.remotes.table[i].isArray)
    => LET entry == ex.remotes.table[CHOOSE i \in 1..Len(ex.remotes.table) :
                                        ex.remotes.table[i].alias = AliasOf(ex.src)]
       IN  /\ ex.ret.threw = "none"
           /\ ex.ret.git = [i \in 1..Len(entry.hosts) |->
                               HostCandidate(ex.root, entry.hosts[i], ex.name)]
           /\ (~StartsWith(FragmentOf(ex.src), <<"semver", ":">>)
                   => ex.ret.branch = FragmentOf(ex.src) /\ ex.ret.version = Null)

\* C8: every specifier expandSrc accepts resolves to exactly one of a version range
\* and a branch: never both, never neither.
C8_ExactlyOneOfVersionAndBranch ==
    (ex.called /\ ex.ret.threw = "none")
    => ((ex.ret.version = Null) # (ex.ret.branch = Null))

----------------------------------------------------------------------------
(* Claims about matchTag *)

\* C5: matchTag returns null, or a tag of the input list that begins with "v" and
\* whose text after that "v" satisfies the range.
C5_MatchTagSound ==
    (mt.called /\ mt.ret # Null)
    => /\ \E i \in 1..Len(mt.tags) : mt.tags[i] = mt.ret
       /\ Len(mt.ret) >= 1 /\ mt.ret[1] = "v"
       /\ Satisfies(Tail(mt.ret), mt.needed)

\* A tag was returned although the list also holds a tag without the prefix whose
\* text satisfies the range, and a prefixed tag that fails it.
C5_Witness ==
    /\ mt.called /\ mt.ret # Null
    /\ \E i \in 1..Len(mt.tags) : mt.tags[i][1] # "v" /\ Satisfies(mt.tags[i], mt.needed)
    /\ \E i \in 1..Len(mt.tags) : mt.tags[i][1] = "v" /\ ~Satisfies(Tail(mt.tags[i]), mt.needed)

----------------------------------------------------------------------------
(* Claims about locatePkg *)

\* The directories the call may read.
LocScope(dst, walk) ==
    IF walk THEN {SubSeq(dst, 1, n) : n \in 0..Len(dst)} ELSE {dst}

\* Those of them that hold a manifest file.
LocHeld == {d \in LocScope(loc.dst, loc.walk) : d \in DOMAIN fs}

LocNearest == CHOOSE d \in LocHeld : \A e \in LocHeld : Len(e) <= Len(d)

\* C10: locatePkg ends after at most one read per directory from the start
\* directory up to the root (one read when not walking); it returns the nearest
\* directory that holds a manifest with that manifest, or a null manifest when none
\* does; an unreadable manifest makes it throw, never return.
C10_Locate ==
    /\ Len(loc.visited) <= (IF loc.walk THEN Len(loc.dst) + 1 ELSE 1)
    /\ \A i \in 1..Len(loc.visited) : loc.visited[i] \in LocScope(loc.dst, loc.walk)
    /\ (loc.pc = "loop" => ENABLED NextLocate)
    /\ (loc.pc = "done" =>
          IF LocHeld = {}
          THEN ~loc.found /\ loc.pkg = NoPkg /\ loc.root = Null
          ELSE /\ fs[LocNearest].read = "ok"
               /\ loc.found /\ loc.root = LocNearest /\ loc.pkg = LocManifest(LocNearest))
    /\ (loc.pc = "thrown" => LocHeld # {} /\ fs[LocNearest].read = "denied")

\* The walk went up at least two levels and found a manifest there.
C10_Witness ==
    /\ loc.pc = "done" /\ loc.walk /\ loc.found
    /\ Len(loc.visited) >= 3 /\ loc.root # loc.dst

----------------------------------------------------------------------------
(* Claims about install *)

NetworkOps == {"listTags", "clone", "verify"}

\* C1: a dependency for which no candidate host offers a tag satisfying the range
\* makes the install call fail; the call never completes normally past it.
C1_NoTagFailsInstall ==
    \A r \in 1..Len(outcome) :
        outcome[r] = "ok"
        => ~\E i \in 1..Len(log) :
               log[i].run = r /\ log[i].op = "exhausted" /\ log[i].note = "nomatch"

\* C2: when the flat path holds a manifest whose version does not satisfy the
\* range, the clone goes to the nested path under the current package and not to
\* the flat path, in the top-level call as in the nested ones.
C2_ConflictClonesAwayFromFlat ==
    \A i \in 1..Len(log) :
        (log[i].op = "clone" /\ log[i].note = "conflict") => log[i].path # log[i].flat

\* The run completed without error, each of its dependencies satisfied or
\* installed and verified.
CleanRun(r) ==
    /\ r \in 1..Len(outcome) /\ outcome[r] = "ok"
    /\ ~\E i \in 1..Len(log) : log[i].run = r /\ log[i].op = "exhausted"

\* C3: a call of install on a target on which the call before, with the same
\* arguments, completed without error makes no clone and no verify, also for the
\* dependencies the first call placed at a nested path.
C3_SecondInstallIdle ==
    \A i \in 1..Len(log) :
        (log[i].run >= 2 /\ CleanRun(log[i].run - 1))
        => log[i].op \notin {"clone", "verify"}

\* C6: the dependencies a call goes through are the direct ones, with their own
\* specifiers, then, unless the call is a production one, the devDependencies
\* whose names are no direct dependency's, in their order.
C6_DevMergeKeepsDirect ==
    \A j \in 1..Len(stack) :
        LET f == stack[j]
            direct == f.pkg.dependencies
            directNames == {direct[i].name : i \in 1..Len(direct)}
            IsDevOnly(d) == d.name \notin directNames
        IN  f.deps = direct \o (IF f.production \/ ~f.pkg.hasDev THEN << >>
                                ELSE SelectSeq(f.pkg.devDependencies, IsDevOnly))

\* C7: when install throws for an unknown remote alias, the call has attempted no
\* tag listing, clone or verify before, wherever the dependency stands.
C7_UnknownRemoteBeforeNetwork ==
    \A j \in 1..Len(log) :
        (log[j].op = "throw" /\ log[j].note = "UnknownRemote")
        => ~\E i \in 1..(j - 1) :
               /\ log[i].run = log[j].run /\ log[i].call = log[j].call
               /\ log[i].op \in NetworkOps

\* C9: a call of install that returns on a package holding a binding.gyp has run
\* the native build once on that package; one that returns on a package without
\* has not run it.
C9_NativeBuildOnReturn ==
    \A j \in 1..Len(log) :
        log[j].op = "return"
        => Cardinality({i \in 1..(j - 1) :
                           /\ log[i].run = log[j].run /\ log[i].call = log[j].call
                           /\ log[i].op = "rebuild" /\ log[i].note = "ok"})
             = (IF log[j].note = "present" THEN 1 ELSE 0)

\* C11: a verification that does not succeed, by returning false or by throwing,
\* ends the dependency in failure: the next thing the call does is throw a
\* VerificationError, and no other candidate host is tried.
C11_VerifyFailureFails ==
    \A i \in 1..Len(log) :
        (log[i].op = "verify" /\ log[i].note \in {"false", "threw"})
        => /\ i < Len(log)
           /\ log[i + 1].op = "throw" /\ log[i + 1].note = "VerificationError"

\* The index of the last probe of a flat path in the log, 0 when there is none.
LastProbe ==
    LET at == {i \in 1..Len(log) : log[i].op = "probe"}
    IN  IF at = {} THEN 0 ELSE CHOOSE i \in at : \A j \in at : j <= i

\* The tag listings made for the dependency the innermost call is at.
ListedSoFar ==
    LET IsListing(e) == e.op = "listTags"
    IN  SelectSeq(SubSeq(log, LastProbe + 1, Len(log)), IsListing)

\* The candidates of a dependency taken from a remote: one per host of the
\* remote, in the order of its host list.
InHostOrder(f) ==
    LET hosts == f.pkg.remotes.table[1].hosts
    IN  f.git = [n \in 1..Len(hosts) |-> hosts[n] \o <<"/">> \o f.name \o <<".git">>]

\* The argument verifyRepo is given for a clone: the tag when its record is
\* annotated, the commit of the record otherwise.
VerifiedBy(clone) ==
    LET entry == TagEntry(TagsAt(clone.url), clone.tag)
    IN  IF entry.annotated THEN clone.tag ELSE entry.commit

\* C12: the hosts of a dependency are listed in the order of the remote's host
\* list; a host without a matching tag is not cloned from and the next one is
\* listed; a clone is of the tag just matched, into the target path; a path is
\* recorded as installed only after its clone passed the verification that fits
\* the tag record; after a verified clone no other host is contacted, and each
\* dependency adds at most one path to the installed list.
C12_HostFallback ==
    /\ (stack # << >> /\ Head(stack).pc \in {"list", "clone", "verify"})
       => LET f == Head(stack)
              listed == ListedSoFar
          IN  /\ f.pkg.remotes.present => InHostOrder(f)
              /\ Len(listed) = (IF f.pc = "list" THEN f.h - 1 ELSE f.h)
              /\ \A n \in 1..Len(listed) : listed[n].url = f.git[n]
    /\ \A i \in 1..Len(log) :
          /\ (log[i].op = "listTags" /\ log[i].note = "nomatch" /\ i < Len(log))
             => /\ log[i + 1].op \in {"listTags", "exhausted"}
                /\ log[i + 1].op = "listTags" => log[i + 1].url # log[i].url
          /\ log[i].op = "clone"
             => /\ i > 1 /\ log[i - 1].op = "listTags" /\ log[i - 1].note = "match"
                /\ log[i - 1].url = log[i].url /\ log[i - 1].tag = log[i].tag
                /\ log[i - 1].path = log[i].path
          /\ log[i].op = "verify"
             => /\ i > 1 /\ log[i - 1].op = "clone" /\ log[i - 1].note # "threw"
                /\ log[i - 1].path = log[i].path
                /\ log[i].tag = VerifiedBy(log[i - 1])
          /\ (log[i].op = "verify" /\ log[i].note = "ok" /\ i < Len(log))
             => log[i + 1].op \notin {"listTags", "clone", "verify", "exhausted"}
    /\ \A j \in 1..Len(stack) :
          LET f == stack[j]
          IN  /\ Len(f.installed) <= f.i - 1
              /\ \A m, n \in 1..Len(f.installed) :
                     f.installed[m] = f.installed[n] => m = n
              /\ \A n \in 1..Len(f.installed) :
                     \E i \in 2..Len(log) :
                        /\ log[i].op = "verify" /\ log[i].note = "ok"
                        /\ log[i].path = f.installed[n]
                        /\ log[i].run = runs /\ log[i].call = f.dst

\* The first host had no matching tag, the second one had: its tag was cloned,
\* the clone verified, and the path recorded as installed.
C12_Witness ==
    /\ stack # << >>
    /\ \E i \in 1..(Len(log) - 3) :
          /\ log[i].op = "listTags" /\ log[i].note = "nomatch"
          /\ log[i + 1].op = "listTags" /\ log[i + 1].note = "match"
          /\ log[i + 2].op = "clone"
          /\ log[i + 3].op = "verify" /\ log[i + 3].note = "ok"
          /\ \E n \in 1..Len(Head(stack).installed) :
                Head(stack).installed[n] = log[i + 3].path

\* The error a failing external operation ends the run with.
ErrorOf(op) ==
    CASE op = "listTags" -> "ListTagsError"
      [] op = "clone" -> "CloneError"
      [] op = "verify" -> "VerificationError"
      [] op = "rebuild" -> "RebuildError"
      [] OTHER -> "IOError"

\* The clone is the last one made into its path.
LastCloneInto(i) ==
    /\ log[i].op = "clone" /\ log[i].note # "threw"
    /\ \A j \in (i + 1)..Len(log) :
          ~(log[j].op = "clone" /\ log[j].note # "threw" /\ log[j].path = log[i].path)

\* C13: an error raised by any step of an install call ends the run: the failing
\* operation is followed by the throw and by nothing else of that run, no call of
\* the run stays in progress, the run's outcome is the error, and what was cloned
\* before stays on disk as cloned.
C13_AbortOnFailure ==
    /\ \A j \in 1..Len(log) :
          /\ log[j].op = "throw"
             => /\ \A i \in (j + 1)..Len(log) : log[i].run # log[j].run
                /\ log[j].run <= Len(outcome)
                /\ outcome[log[j].run] = log[j].note /\ log[j].note # "ok"
                /\ log[j].run = runs => stack = << >>
          /\ (\/ log[j].note = "threw"
              \/ /\ log[j].op = "probe" /\ log[j].path \in DOMAIN fs
                 /\ fs[log[j].path].read = "denied")
             => /\ j < Len(log)
                /\ log[j + 1].op = "throw" /\ log[j + 1].note = ErrorOf(log[j].op)
          /\ LastCloneInto(j)
             => /\ log[j].path \in DOMAIN fs
                /\ fs[log[j].path].pkg = TagEntry(TagsAt(log[j].url), log[j].tag).tree.pkg
    /\ \A r \in 1..Len(outcome) :
          outcome[r] # "ok"
          => \E j \in 1..Len(log) :
                log[j].run = r /\ log[j].op = "throw" /\ log[j].note = outcome[r]

\* A nested call failed after the run had cloned a package: the run is over with
\* the error, and the clone is on disk.
C13_Witness ==
    /\ stack = << >> /\ runs >= 1 /\ Len(outcome) = runs /\ outcome[runs] # "ok"
    /\ \E j \in 1..Len(log) :
          /\ log[j].run = runs /\ log[j].op = "throw" /\ log[j].depth >= 2
          /\ \E i \in 1..(j - 1) :
                /\ log[i].run = runs /\ log[i].op = "clone" /\ log[i].note # "threw"
                /\ log[i].path \in DOMAIN fs

\* The names a call goes through, in order: those of the dependencies, then,
\* unless the call is a production one, those only the devDependencies have.
ExpectedNames(f) ==
    LET direct == f.pkg.dependencies
        IsDevOnly(d) == \A i \in 1..Len(direct) : direct[i].name # d.name
        devOnly == IF f.production \/ ~f.pkg.hasDev THEN << >>
                   ELSE SelectSeq(f.pkg.devDependencies, IsDevOnly)
    IN  [n \in 1..Len(direct) |-> direct[n].name] \o
        [n \in 1..Len(devOnly) |-> devOnly[n].name]

\* Where the innermost call starts in the log, while it is in its dependency loop.
OwnStart ==
    LET at == {i \in 1..Len(log) : log[i].op = "install"}
    IN  IF at = {} THEN 0 ELSE CHOOSE i \in at : \A j \in at : j <= i

\* The probes the innermost call made so far.
OwnProbes ==
    LET IsProbe(e) == e.op = "probe"
    IN  SelectSeq(SubSeq(log, OwnStart + 1, Len(log)), IsProbe)

TopPrefix == IF opts.prefix = Null THEN opts.dst ELSE opts.prefix

\* The depth of the j-th frame of the stack, the innermost call being the first.
DepthOf(j) == Len(stack) - j + 1

\* Where the call of the j-th frame starts in the log.
StartOf(j) ==
    LET at == {i \in 1..Len(log) :
                  log[i].op = "install" /\ log[i].run = runs /\ log[i].depth = DepthOf(j)}
    IN  CHOOSE i \in at : \A n \in at : n <= i

\* The paths the call of the j-th frame called install on, in order.
ChildrenOf(j) ==
    LET IsChild(e) == e.op = "install" /\ e.depth = DepthOf(j) + 1
        calls == SelectSeq(SubSeq(log, StartOf(j) + 1, Len(log)), IsChild)
    IN  [n \in 1..Len(calls) |-> calls[n].path]

\* C15: a call recurses only when its dependency loop is over, once into each
\* path it installed, in the order it installed them, and is past the recursion
\* only when it went through all of them; a recursive call is over before the
\* next call outside it starts; every call has the prefix of the top-level call,
\* so every probe is of <top-level prefix>/node_modules/<name>.
C15_RecursionOrder ==
    /\ \A j \in 1..Len(stack) :
          LET f == stack[j]
          IN  /\ f.prefix = TopPrefix
              /\ f.k <= Len(f.installed) + 1
              /\ ChildrenOf(j) = SubSeq(f.installed, 1, f.k - 1)
              /\ f.pc \in {"dep", "list", "clone", "verify"} => f.k = 1
              /\ f.pc \in {"gyp", "rebuild"} => f.k = Len(f.installed) + 1
              /\ j >= 2 => f.k >= 2 /\ stack[j - 1].dst = f.installed[f.k - 1]
    /\ \A i \in 1..Len(log) :
          /\ log[i].op = "probe" => log[i].path = ModulePath(TopPrefix, <<log[i].note>>)
          /\ (log[i].op = "install" /\ log[i].note = "nested")
             => \A n \in (i + 1)..Len(log) :
                   (log[n].op = "install" /\ log[n].run = log[i].run
                    /\ log[n].depth <= log[i].depth)
                   => \E r \in (i + 1)..(n - 1) :
                         /\ log[r].op = "return" /\ log[r].call = log[i].path
                         /\ log[r].depth = log[i].depth

\* The call is in the second package its caller installed, listing tags for a
\* dependency it probed under the prefix of the top-level call.
C15_Witness ==
    /\ Len(stack) >= 2 /\ stack[2].k = 3
    /\ Head(stack).pc = "list"
    /\ Head(stack).flat = ModulePath(TopPrefix, Head(stack).name)
    /\ Head(stack).root # TopPrefix

----------------------------------------------------------------------------
(* More claims about matchTag and expandSrc *)

\* The tags of the list that begin with "v" and satisfy the range without it.
Qualifying ==
    {mt.tags[i] : i \in {n \in 1..Len(mt.tags) :
                            /\ mt.tags[n] # << >> /\ mt.tags[n][1] = "v"
                            /\ Satisfies(Tail(mt.tags[n]), mt.needed)}}

\* C16: matchTag returns null exactly when no tag of the list begins with "v" and
\* satisfies the range; otherwise it returns the qualifying tag that is greatest
\* as a string, which need not be the highest version: v2.0.0 is returned when
\* v10.0.0 qualifies too.
C16_GreatestStringWins ==
    mt.called
    => /\ (mt.ret = Null) <=> (Qualifying = {})
       /\ mt.ret # Null
          => /\ mt.ret \in Qualifying
             /\ \A t \in Qualifying : ~StrLess(mt.ret, t)
       /\ ({Tag(<<"2">>, <<"0">>), Tag(<<"1", "0">>, <<"0">>)} \subseteq Qualifying)
          => mt.ret = Tag(<<"2">>, <<"0">>)

\* v2.0.0 and v10.0.0 both qualify, and v2.0.0 is returned.
C16_Witness ==
    /\ mt.called /\ mt.ret = Tag(<<"2">>, <<"0">>)
    /\ Tag(<<"1", "0">>, <<"0">>) \in Qualifying
    /\ Tag(<<"1">>, <<"5">>) \in Qualifying

\* A direct git specifier without its git+ prefix, up to its first "#".
UrlPart(src) ==
    LET url == IF src[1] = "git+" THEN Tail(src) ELSE src
        i == IndexOf(url, <<"#">>)
    IN  IF i = 0 THEN url ELSE SubSeq(url, 1, i - 1)

\* What follows the first "#" of a specifier, empty when there is none.
FragmentPart(src) ==
    LET i == IndexOf(src, <<"#">>)
    IN  IF i = 0 THEN << >> ELSE SubSeq(src, i + 1, Len(src))

\* C17: for a specifier that starts with git+ssh://, git+https:// or git://,
\* whatever the remotes table, expandSrc does not raise and returns one candidate:
\* the specifier without its git+ prefix and without its fragment; a fragment that
\* starts with semver: gives the range after it as the version, and no branch.
\* git+https://example.com/pkg.git#semver:^1.2.0 gives https://example.com/pkg.git
\* with the range ^1.2.0.
C17_DirectGitUrl ==
    (ex.called /\ IsGitUrl(ex.src))
    => /\ ex.ret.threw = "none"
       /\ ex.ret.git = <<UrlPart(ex.src)>>
       /\ StartsWith(FragmentPart(ex.src), <<"semver", ":">>)
          => /\ ex.ret.version = SubSeq(FragmentPart(ex.src), 3, Len(FragmentPart(ex.src)))
             /\ ex.ret.branch = Null
       /\ ex.src = GitHttpsPrefix \o ExamplePkg \o
                      <<"#", "semver", ":", "^", "1", ".", "2", ".", "0">>
          => /\ ex.ret.git = <<<<"https", ":", "//", "example.com", "/", "pkg", ".git">>>>
             /\ ex.ret.version = <<"^", "1", ".", "2", ".", "0">>

\* The example specifier was expanded against a remotes table.
C17_Witness ==
    /\ ex.called /\ ex.remotes.present
    /\ ex.src = GitHttpsPrefix \o ExamplePkg \o
                   <<"#", "semver", ":", "^", "1", ".", "2", ".", "0">>
    /\ ex.ret.git = <<<<"https", ":", "//", "example.com", "/", "pkg", ".git">>>>

----------------------------------------------------------------------------
(* More claims about install *)

\* C18: a dependency is skipped as already satisfied only on the strength of a
\* package that passed verification: when the package at its flat path was put
\* there by a clone, the last such clone was followed by a successful verify.
C18_SatisfiedOnlyByVerified ==
    \A j \in 1..Len(log) :
        log[j].op = "satisfied"
        => \A i \in 1..(j - 1) :
              (/\ log[i].op = "clone" /\ log[i].note # "threw"
               /\ log[i].path = log[j].path
               /\ \A n \in (i + 1)..(j - 1) :
                     ~(log[n].op = "clone" /\ log[n].note # "threw"
                       /\ log[n].path = log[j].path))
              => log[i + 1].op = "verify" /\ log[i + 1].note = "ok"

\* C19: in a run started with options.production, no call at any depth takes an
\* entry of the devDependencies: each goes through its dependencies only.
C19_ProductionTransitive ==
    opts.production
    => \A j \in 1..Len(stack) : stack[j].deps = stack[j].pkg.dependencies

\* The call of the i-th frame is on a package its caller placed under its own
\* node_modules, away from the flat path, because of a conflict.
NestedUnderCaller(i) ==
    /\ i < Len(stack)
    /\ stack[i].dst = NestedPath(stack[i + 1].root, stack[i].pkg.name)
    /\ stack[i].dst # FlatPath(stack[i + 1].prefix, stack[i].pkg.name)

\* C20: while every external operation returns without failure, the chain of
\* nested installation paths does not grow without bound: in a first call no
\* package is installed, at the same version, down a chain of nested
\* installation paths that starts at a copy of itself.
C20_NestedChainEnds ==
    \A i, j \in 1..Len(stack) :
        (/\ runs = 1 /\ Faults = 0
         /\ i < j
         /\ \A n \in i..(j - 1) : NestedUnderCaller(n)
         /\ stack[i].pkg.name = stack[j].pkg.name
         /\ stack[i].pkg.version = stack[j].pkg.version)
        => FALSE

====
